---------------------------- MODULE Spec2Model ----------------------------
(***************************************************************************)
(* The LISS4 DN-to-reflectance notebook (xarray_liss4_processing.ipynb) as *)
(* a state machine: one action per notebook cell, the metadata loop one    *)
(* action per line, and the raster write one action per (band, pixel)      *)
(* task of the dask worker pool.                                           *)
(*                                                                         *)
(* Text is a sequence of tokens.  A token is one whitespace character      *)
(* (" ", "\n"), the character "=", or a word: a maximal run of characters  *)
(* that holds neither whitespace nor "=".  str.split('=') and str.strip()  *)
(* only look at whitespace and "=", so they act on tokens exactly as they  *)
(* act on characters.                                                      *)
(*                                                                         *)
(* Floating-point values are exact: a rational coefficient times integer   *)
(* powers of the transcendental quantities of the computation (math.pi,    *)
(* sun.earth_distance of a date, math.cos of an angle), kept as atoms.     *)
(***************************************************************************)
EXTENDS Integers, Sequences, FiniteSets, TLC

(***************************************************************************)
(* Bounds of the model.                                                    *)
(***************************************************************************)
\* Longest extra metadata line, in tokens, without its line terminator.
MaxLineLen == 3
\* Largest digital number stored in a band file.
MaxDN == 2
MaxRuns == 2
MaxVertices == 4

\* The pixel grid of the three band files (all three share it).
Pixels == {1, 2}

(***************************************************************************)
(* Text                                                                    *)
(***************************************************************************)
Whitespace == {" ", "\n"}

\* str.strip(): leading and trailing whitespace removed.
RECURSIVE LStrip(_)
LStrip(s) ==
    IF s # <<>> /\ Head(s) \in Whitespace THEN LStrip(Tail(s)) ELSE s

RECURSIVE RStrip(_)
RStrip(s) ==
    IF s # <<>> /\ s[Len(s)] \in Whitespace
    THEN RStrip(SubSeq(s, 1, Len(s) - 1))
    ELSE s

Strip(s) == RStrip(LStrip(s))

\* str.split(sep): the pieces between every occurrence of sep.
RECURSIVE SplitFrom(_, _, _)
SplitFrom(s, sep, piece) ==
    IF s = <<>> THEN <<piece>>
    ELSE IF Head(s) = sep
         THEN <<piece>> \o SplitFrom(Tail(s), sep, <<>>)
         ELSE SplitFrom(Tail(s), sep, Append(piece, Head(s)))

\* Mutant of Split: str.split(sep, 1), which splits at the first sep only.
SplitOnce(s, sep) ==
    IF \E i \in 1..Len(s) : s[i] = sep
    THEN LET i == CHOOSE j \in 1..Len(s) :
                     s[j] = sep /\ \A l \in 1..(j - 1) : s[l] # sep
         IN  <<SubSeq(s, 1, i - 1), SubSeq(s, i + 1, Len(s))>>
    ELSE <<s>>

Split(s, sep) == SplitFrom(s, sep, <<>>)

(***************************************************************************)
(* Numbers                                                                 *)
(***************************************************************************)
RECURSIVE Gcd(_, _)
Gcd(a, b) == IF b = 0 THEN a ELSE Gcd(b, a % b)

Abs(a) == IF a < 0 THEN -a ELSE a

\* The rational n/d in lowest terms with a positive denominator.
Rat(num, den) ==
    LET g == Gcd(Abs(num), Abs(den))
        s == IF den < 0 THEN -1 ELSE 1
    IN  <<s * (num \div g), s * (den \div g)>>

RatMul(x, y) ==
    LET a == Rat(x[1], y[2])
        b == Rat(y[1], x[2])
    IN  Rat(a[1] * b[1], a[2] * b[2])

RatInv(x) == Rat(x[2], x[1])

RatSub(x, y) == Rat(x[1] * y[2] - y[1] * x[2], x[2] * y[2])

\* The empty product of atoms.
NoSym == [a \in {} |-> 0]

\* A float: q times the product of atom^sym[atom]; nan is float('nan').
Float(q, sym) == [nan |-> FALSE, q |-> q, sym |-> IF q[1] = 0 THEN NoSym ELSE sym]

NaN == [nan |-> TRUE, q |-> <<0, 1>>, sym |-> NoSym]

Num(num, den) == Float(Rat(num, den), NoSym)

Atom(name, num, den) == Float(<<1, 1>>, [a \in {<<name, num, den>>} |-> 1])

SymMul(f, g) ==
    LET D == DOMAIN f \cup DOMAIN g
        e(a) == (IF a \in DOMAIN f THEN f[a] ELSE 0)
                + (IF a \in DOMAIN g THEN g[a] ELSE 0)
    IN  [a \in {x \in D : e(x) # 0} |-> e(a)]

SymInv(f) == [a \in DOMAIN f |-> -f[a]]

\* x * y and x / y on floats; nan is absorbing.
Mul(x, y) ==
    IF x.nan \/ y.nan THEN NaN
    ELSE Float(RatMul(x.q, y.q), SymMul(x.sym, y.sym))

\* Mutant of Div: the operands the other way round.
DivInverted(x, y) ==
    IF x.nan \/ y.nan THEN NaN
    ELSE Float(RatMul(y.q, RatInv(x.q)), SymMul(y.sym, SymInv(x.sym)))

Div(x, y) ==
    IF x.nan \/ y.nan THEN NaN
    ELSE Float(RatMul(x.q, RatInv(y.q)), SymMul(x.sym, SymInv(y.sym)))

\* x - y on floats that hold no atom.
Sub(x, y) == Float(RatSub(x.q, y.q), NoSym)

(***************************************************************************)
(* The scene on disk after the zip file is extracted                       *)
(***************************************************************************)
BandOrder == <<"BAND2", "BAND3", "BAND4">>
Bands == {BandOrder[i] : i \in 1..Len(BandOrder)}

\* The contents BAND2.tif, BAND3.tif and BAND4.tif can have.
Rasters == [Bands -> [Pixels -> 0..MaxDN]]

\* One line of BAND_META.txt as the satellite data provider writes it.
MetaLine(key, value) == <<key, "=", " ", value>>

\* The bodies (lines without terminator) of a well-formed BAND_META.txt.
SceneMeta(date, elevation) ==
    << MetaLine("OTSProductID", "RAF20FEB2023"),
       MetaLine("DateOfPass", date),
       MetaLine("SunElevationAtCenter", elevation) >>

\* What iterating over the open file yields: every line with its
\* terminator, the last one without it when the file does not end in one.
FileLines(bodies, eofNewline) ==
    LET n == Len(bodies)
        all == [i \in 1..n |->
                  IF i = n /\ ~eofNewline THEN bodies[i]
                  ELSE Append(bodies[i], "\n")]
    IN  IF n > 0 /\ all[n] = <<>> THEN SubSeq(all, 1, n - 1) ELSE all

\* Tokens of the lines a metadata file may hold besides the three above.
ExtraTokens == {"DateOfPass", "04-JUL-2023", " ", "="}

ExtraLines == UNION {[1..n -> ExtraTokens] : n \in 0..MaxLineLen}

\* s without its i-th element (i = 0: s itself).
Without(s, i) == [j \in 1..(Len(s) - (IF i = 0 THEN 0 ELSE 1)) |->
                    IF i = 0 \/ j < i THEN s[j] ELSE s[j + 1]]

\* Metadata files: the well-formed file with at most one line missing and
\* one more line put first or last.
EditedMetaFiles ==
    { FileLines(IF first THEN <<x>> \o Without(SceneMeta("04-MAR-2023", "45.32"), i)
                ELSE Without(SceneMeta("04-MAR-2023", "45.32"), i) \o <<x>>,
                nl) :
        <<x, i, first, nl>> \in ExtraLines \X (0..3) \X BOOLEAN \X BOOLEAN }

\* Metadata files of scenes of other dates and sun elevations, and with
\* values that are no date and no number.
DateWords == {"04-MAR-2023", "04-JUL-2023", "2023-03-04"}
ElevationWords == {"45.32", "30.5", "0", "high"}

SceneMetaFiles ==
    { FileLines(SceneMeta(dt, el), TRUE) : <<dt, el>> \in DateWords \X ElevationWords }

DefaultMeta == FileLines(SceneMeta("04-MAR-2023", "45.32"), TRUE)

\* The ways the pixel grid is cut into chunks: one chunk, or one per pixel.
Chunkings == { {Pixels}, {{p} : p \in Pixels} }

DefaultRaster ==
    [b \in Bands |-> [p \in Pixels |->
        CASE b = "BAND2" -> IF p = 1 THEN 1 ELSE 2
          [] b = "BAND3" -> IF p = 1 THEN 2 ELSE 0
          [] OTHER       -> IF p = 1 THEN 0 ELSE 1]]

(***************************************************************************)
(* Library functions the notebook calls                                    *)
(***************************************************************************)
\* datetime.datetime.strptime(s, '%d-%b-%Y') raises ValueError unless s is a
\* date of that format; the date is kept as the number yyyymmdd.
StrptimeOk(s) == Len(s) = 1 /\ s[1] \in {"04-MAR-2023", "04-JUL-2023"}

Strptime(s) ==
    CASE s[1] = "04-MAR-2023" -> 20230304
      [] s[1] = "04-JUL-2023" -> 20230704

\* float(s), or a ValueError when s is no number.
ParseFloatOk(s) == Len(s) = 1 /\ s[1] \in {"45.32", "30.5", "0"}

ParseFloat(s) ==
    CASE s[1] = "45.32" -> Num(4532, 100)
      [] s[1] = "30.5"  -> Num(305, 10)
      [] s[1] = "0"     -> Num(0, 1)

\* math.pi
MathPi == Atom("pi", 1, 1)

\* math.radians(x) = x * pi / 180
Radians(x) == Div(Mul(x, MathPi), Num(180, 1))

\* Mutant of Cos: the cosine of the real number pi/2, which is 0.
CosExact(x) ==
    IF x.q = <<1, 2>> /\ x.sym = MathPi.sym THEN Num(0, 1)
    ELSE Atom("cos_pi", x.q[1], x.q[2])

\* math.cos(x) of an angle x = q * pi, kept as the atom cos(q * pi).  No
\* double is an odd multiple of pi/2, so math.cos never returns 0.
Cos(x) == Atom("cos_pi", x.q[1], x.q[2])

\* ephem: the Earth-Sun distance (AU) the Sun body computes for an observer
\* whose only setting is the date.
EarthDistance(date) == Atom("earth_distance", date, 1)

(***************************************************************************)
(* Lazy (dask-backed) arrays.  An array is the expression that computes    *)
(* it; its operands are arrays made before it, named by their index in     *)
(* the sequence of all arrays made so far.  Every array has a band         *)
(* dimension or a scalar band coordinate: one label per layer.             *)
(***************************************************************************)
Node(op, args, k, names) == [op |-> op, args |-> args, k |-> k, names |-> names]

\* rxr.open_rasterio(<band>.tif, chunks=True)
OpenRasterio(band) == Node("open_rasterio", <<>>, NaN, <<band>>)
\* xr.concat(arrays, dim='band')
Concat(operands) == Node("concat", operands, NaN, <<>>)
\* array.assign_coords(band=names)
AssignCoords(array, names) == Node("assign_coords", <<array>>, NaN, names)
\* array.where(array != k)
WhereNotEqual(array, k) == Node("where_ne", <<array>>, k, <<>>)
\* Mutant of Sel: whatever the name, the first band is selected.
SelFirstBand(array, name) == Node("sel", <<array>>, NaN, <<"BAND2">>)
\* array.sel(band=name)
Sel(array, name) == Node("sel", <<array>>, NaN, <<name>>)
\* array * k, k * array and array / k for a scalar k
MulScalar(array, k) == Node("mul", <<array>>, k, <<>>)
DivScalar(array, k) == Node("div", <<array>>, k, <<>>)

RECURSIVE Flatten(_)
Flatten(ss) == IF ss = <<>> THEN <<>> ELSE Head(ss) \o Flatten(Tail(ss))

IndexOf(names, name) == CHOOSE i \in 1..Len(names) : names[i] = name

(***************************************************************************)
(* State: the files on disk and the notebook's global names                *)
(***************************************************************************)
VARIABLES
    file,       \* the lines of BAND_META.txt
    disk,       \* the digital numbers of BAND2.tif, BAND3.tif, BAND4.tif
    chunks,     \* the pixel chunks chunks=True cuts every band into
    pc,         \* the cell (or loop) about to run
    err,        \* the exception that halted the run at pc, "" when none
    lineno,     \* the line the metadata loop is at
    metadata, scene_id,
    arrays,     \* the lazy arrays made so far; a name holds its array's index
    b_ds, scene,
    acq_date, sun_zenith_angle, d,
    b_sr, b_esun, pi, sun_zenith_angle_rad,
    b_dn, b_rad, b_ref, scene_ref, output_ds, output_file,
    pending,    \* the (layer, pixel) tasks the worker pool has not run yet
    raster,     \* the pixels written so far to the raster being written
    outputs,    \* the raster files the run has created
    liss4_zip,  \* the name of the scene's zip file
    user_zip,   \* the value the user typed into the liss4_zip cell
    local,      \* the names of the files in the notebook's directory
    downloads,  \* the runs in which urlretrieve fetched the sample scene
    run,        \* how many times the notebook was started
    network,    \* the network is reachable
    credentials,\* Earth Engine credentials are stored on the machine
    consent,    \* the user completes the sign-in ee.Authenticate asks for
    installed,  \* the package geographiclib is installed
    colab,      \* the notebook runs on Google Colab
    calls,      \* the library calls the notebook has made, in order
    caught,     \* the exceptions an except clause has caught, in order
    points,     \* the vertices of the polygon, (latitude, longitude) pairs
    vertex,     \* the vertex the AddPoint loop is at
    polygon,    \* the vertices the polygon accumulator holds
    result      \* what polygon.Compute() returned

disk_vars == <<file, disk, chunks>>
parse_vars == <<lineno, metadata, scene_id>>
read_vars == <<b_ds, scene>>
scalar_vars == <<acq_date, sun_zenith_angle, d, b_sr, b_esun, pi, sun_zenith_angle_rad>>
array_vars == <<b_dn, b_rad, b_ref, scene_ref, output_ds, output_file>>
write_vars == <<pending, raster, outputs>>
select_vars == <<liss4_zip, user_zip, local, downloads, run>>
env_vars == <<network, credentials, consent, installed, colab>>
log_vars == <<calls, caught>>
polygon_vars == <<points, vertex, polygon, result>>
other_vars == <<select_vars, env_vars, log_vars, polygon_vars>>
pipeline_vars == <<arrays, disk_vars, parse_vars, read_vars, scalar_vars, array_vars, write_vars>>
vars == <<disk_vars, pc, err, parse_vars, arrays, read_vars, scalar_vars, array_vars, write_vars,
          other_vars>>

\* The band coordinate of array n.
RECURSIVE Coords(_)
Coords(n) ==
    LET a == arrays[n]
    IN  CASE a.op = "open_rasterio" -> <<"1">>
          [] a.op = "concat" -> Flatten([i \in 1..Len(a.args) |-> Coords(a.args[i])])
          [] a.op = "assign_coords" -> a.names
          [] a.op = "sel" -> a.names
          [] OTHER -> Coords(a.args[1])

\* The operand of a concat that holds layer i of the result, and the
\* layer's index in it.
RECURSIVE ConcatPick(_, _)
ConcatPick(operands, i) ==
    LET n == Len(Coords(Head(operands)))
    IN  IF i <= n THEN <<Head(operands), i>> ELSE ConcatPick(Tail(operands), i - n)

\* where(array != k) on one value
WhereValue(v, k) == IF v = k THEN NaN ELSE v

\* The value of layer i of array n at pixel p: what a worker computes for
\* the chunk that holds p.
RECURSIVE EvalLayer(_, _, _)
EvalLayer(n, i, p) ==
    LET a == arrays[n]
    IN  CASE a.op = "open_rasterio" -> Num(disk[a.names[1]][p], 1)
          [] a.op = "concat" ->
                LET at == ConcatPick(a.args, i) IN EvalLayer(at[1], at[2], p)
          [] a.op = "assign_coords" -> EvalLayer(a.args[1], i, p)
          [] a.op = "where_ne" -> WhereValue(EvalLayer(a.args[1], i, p), a.k)
          [] a.op = "sel" ->
                EvalLayer(a.args[1], IndexOf(Coords(a.args[1]), a.names[1]), p)
          [] a.op = "mul" -> Mul(EvalLayer(a.args[1], i, p), a.k)
          [] a.op = "div" -> Div(EvalLayer(a.args[1], i, p), a.k)

\* The value at pixel p of an array that has a single layer.
EvalPixel(n, p) == EvalLayer(n, 1, p)

\* The index the k-th array made by the running cell gets.
New(k) == Len(arrays) + k

\* The position of a band among BAND2, BAND3, BAND4.
BandNo(band) == IndexOf(BandOrder, band)

EmptyDict == [k \in {} |-> <<>>]
NoArrays == [b \in Bands |-> 0]
NoScalars == [b \in Bands |-> NaN]

\* liss4_zip = 'RAF20FEB2023032197010000064SSANSTUC00GTDC.zip', the sample
SampleZip == "RAF20FEB2023032197010000064SSANSTUC00GTDC.zip"

\* The zip files a user may name and may have put next to the notebook.
UserZips == {"MYSCENE.zip"}

\* No cell of the correction pipeline has run.
PipelineNotRun ==
    /\ err = ""
    /\ lineno = 0
    /\ metadata = EmptyDict
    /\ scene_id = <<>>
    /\ arrays = <<>>
    /\ b_ds = NoArrays
    /\ scene = 0
    /\ acq_date = 0
    /\ sun_zenith_angle = NaN
    /\ d = NaN
    /\ b_sr = NoScalars
    /\ b_esun = NoScalars
    /\ pi = NaN
    /\ sun_zenith_angle_rad = NaN
    /\ b_dn = NoArrays
    /\ b_rad = NoArrays
    /\ b_ref = NoArrays
    /\ scene_ref = 0
    /\ output_ds = [name \in {} |-> 0]
    /\ output_file = <<>>
    /\ pending = {}
    /\ raster = [t \in {} |-> NaN]
    /\ outputs = {}

\* The scene is the one extracted already; the selection cells are not run.
SceneSelected ==
    /\ liss4_zip = SampleZip
    /\ user_zip = ""
    /\ local = {SampleZip}
    /\ downloads = <<>>
    /\ run = 1

\* No library call made, no polygon built.
NothingCalled ==
    /\ calls = <<>>
    /\ caught = <<>>
    /\ points = <<>>
    /\ vertex = 0
    /\ polygon = <<>>
    /\ result = <<>>

\* The machine the LISS4 notebook runs on.
Liss4Machine ==
    /\ credentials = FALSE /\ consent = FALSE
    /\ installed = FALSE /\ colab = FALSE

\* The LISS4 notebook from its metadata cell on, the scene extracted.
InitPipeline ==
    /\ \/ /\ file \in EditedMetaFiles \cup SceneMetaFiles
          /\ disk = DefaultRaster
          /\ chunks \in Chunkings
       \/ /\ file = DefaultMeta
          /\ disk \in Rasters
          /\ chunks = {Pixels}
    /\ pc = "metadata"
    /\ PipelineNotRun
    /\ SceneSelected
    /\ network = TRUE
    /\ Liss4Machine
    /\ NothingCalled

\* The LISS4 notebook from its first code cell on: what the user typed
\* into liss4_zip, the files next to the notebook, the network.
InitSelect ==
    /\ pc = "liss4_zip"
    /\ user_zip \in {""} \cup UserZips
    /\ liss4_zip = ""
    /\ local \in SUBSET ({SampleZip} \cup UserZips)
    /\ downloads = <<>>
    /\ run = 1
    /\ network \in BOOLEAN
    /\ file = DefaultMeta /\ disk = DefaultRaster /\ chunks = {Pixels}
    /\ PipelineNotRun
    /\ Liss4Machine
    /\ NothingCalled

\* The folder and file the XEE notebook writes.
OutputFolder == "output"
PopulationTif == "output/population.tif"

\* The XEE notebook from its output folder cell on: the network, the
\* stored credentials, whether the user would complete a sign-in.
InitXee ==
    /\ pc = "output_folder"
    /\ network \in BOOLEAN /\ credentials \in BOOLEAN /\ consent \in BOOLEAN
    /\ installed = FALSE /\ colab \in BOOLEAN
    /\ local \in {{}, {OutputFolder}}
    /\ liss4_zip = "" /\ user_zip = "" /\ downloads = <<>> /\ run = 1
    /\ file = DefaultMeta /\ disk = DefaultRaster /\ chunks = {Pixels}
    /\ PipelineNotRun
    /\ NothingCalled

\* Latitudes and longitudes of polygon vertices, in degrees.
Lats == {0, 1}
Lons == {0, 1}

\* points = [(minlat, minlon), (minlat, maxlon), (maxlat, maxlon), (maxlat, minlon)]
Rectangle == << <<0, 0>>, <<0, 1>>, <<1, 1>>, <<1, 0>> >>

\* The vertex lists a user may put into the points cell.
PointLists == UNION {[1..n -> Lats \X Lons] : n \in 0..MaxVertices}

\* The geographiclib notebook from its first cell on: either the machine
\* varies and the polygon is the notebook's, or the polygon varies.
InitPolygon ==
    /\ pc = "import_geographiclib"
    /\ \/ /\ installed \in BOOLEAN /\ colab \in BOOLEAN /\ network \in BOOLEAN
          /\ points = Rectangle
       \/ /\ installed = TRUE /\ colab = FALSE /\ network = TRUE
          /\ points \in PointLists
    /\ credentials = FALSE /\ consent = FALSE
    /\ calls = <<>> /\ caught = <<>>
    /\ vertex = 0 /\ polygon = <<>> /\ result = <<>>
    /\ local = {}
    /\ liss4_zip = "" /\ user_zip = "" /\ downloads = <<>> /\ run = 1
    /\ file = DefaultMeta /\ disk = DefaultRaster /\ chunks = {Pixels}
    /\ PipelineNotRun

Init ==
    \/ InitPipeline
    \/ InitSelect
    \/ InitXee
    \/ InitPolygon

(***************************************************************************)
(* Selecting the scene                                                     *)
(***************************************************************************)
\* liss4_zip = '' as the user left or edited it
SetLiss4Zip ==
    /\ pc = "liss4_zip" /\ err = ""
    /\ liss4_zip' = user_zip
    /\ pc' = "download"
    /\ UNCHANGED <<arrays, disk_vars, err, parse_vars, read_vars, scalar_vars, array_vars,
                   write_vars, user_zip, local, downloads, run, env_vars, log_vars,
                   polygon_vars>>

\* data_url + liss4_zip, as the components of the URL's path
DataUrl == <<"https:", "", "storage.googleapis.com", "spatialthoughts-public-data", "liss4">>
Url(name) == Append(DataUrl, name)

\* os.path.basename(url): what follows the last '/'
Basename(url) == url[Len(url)]

\* Mutant of DownloadSample: the sample is fetched whether or not a file of
\* its name exists.
DownloadSampleAlways ==
    /\ pc = "download" /\ err = ""
    /\ IF liss4_zip = ""
       THEN LET filename == Basename(Url(SampleZip))
            IN  /\ liss4_zip' = SampleZip
                /\ calls' = Append(calls, "urlretrieve")
                /\ IF network
                   THEN /\ local' = local \cup {filename}
                        /\ downloads' = Append(downloads, run)
                        /\ pc' = "client"
                        /\ err' = ""
                   ELSE /\ err' = "URLError"
                        /\ UNCHANGED <<pc, local, downloads>>
       ELSE /\ pc' = "client"
            /\ UNCHANGED <<err, liss4_zip, local, downloads, calls>>
    /\ UNCHANGED <<arrays, disk_vars, parse_vars, read_vars, scalar_vars, array_vars,
                   write_vars, user_zip, run, env_vars, caught, polygon_vars>>

\* The cell "if not liss4_zip: ...": the sample is named, and fetched
\* with urlretrieve unless a file of its name exists.  urlretrieve raises
\* URLError without network.
DownloadSample ==
    /\ pc = "download" /\ err = ""
    /\ IF liss4_zip = ""
       THEN LET filename == Basename(Url(SampleZip))
            IN  /\ liss4_zip' = SampleZip
                /\ IF filename \notin local
                   THEN /\ calls' = Append(calls, "urlretrieve")
                        /\ IF network
                           THEN /\ local' = local \cup {filename}
                                /\ downloads' = Append(downloads, run)
                                /\ pc' = "client"
                                /\ err' = ""
                           ELSE /\ err' = "URLError"
                                /\ UNCHANGED <<pc, local, downloads>>
                   ELSE /\ pc' = "client"
                        /\ UNCHANGED <<err, local, downloads, calls>>
       ELSE /\ pc' = "client"
            /\ UNCHANGED <<err, liss4_zip, local, downloads, calls>>
    /\ UNCHANGED <<arrays, disk_vars, parse_vars, read_vars, scalar_vars, array_vars,
                   write_vars, user_zip, run, env_vars, caught, polygon_vars>>

\* client = Client()
StartClient ==
    /\ pc = "client" /\ err = ""
    /\ calls' = Append(calls, "Client")
    /\ pc' = "unzip"
    /\ UNCHANGED <<arrays, disk_vars, err, parse_vars, read_vars, scalar_vars, array_vars,
                   write_vars, select_vars, env_vars, caught, polygon_vars>>

\* with zipfile.ZipFile(liss4_zip) as zf: ... zf.extractall()
\* ZipFile raises FileNotFoundError when no file has that name.
Unzip ==
    /\ pc = "unzip" /\ err = ""
    /\ calls' = Append(calls, "ZipFile")
    /\ IF liss4_zip \in local
       THEN pc' = "unzipped" /\ err' = ""
       ELSE err' = "FileNotFoundError" /\ UNCHANGED pc
    /\ UNCHANGED <<arrays, disk_vars, parse_vars, read_vars, scalar_vars, array_vars,
                   write_vars, select_vars, env_vars, caught, polygon_vars>>

\* The user starts the notebook again from its first cell; the files stay,
\* the network may have changed.
RunAgain ==
    /\ pc \in {"download", "client", "unzip", "unzipped"}
    /\ run < MaxRuns
    /\ run' = run + 1
    /\ pc' = "liss4_zip"
    /\ err' = ""
    /\ calls' = <<>>
    /\ network' \in BOOLEAN
    /\ UNCHANGED <<arrays, disk_vars, parse_vars, read_vars, scalar_vars, array_vars,
                   write_vars, liss4_zip, user_zip, local, downloads,
                   credentials, consent, installed, colab, caught, polygon_vars>>

(***************************************************************************)
(* The metadata cell                                                       *)
(***************************************************************************)
\* metadata = {}; with open(metadata_filepath) as f:
OpenMetadata ==
    /\ pc = "metadata" /\ err = ""
    /\ metadata' = EmptyDict
    /\ lineno' = 1
    /\ pc' = "for_line"
    /\ UNCHANGED <<arrays, disk_vars, other_vars, err, scene_id, read_vars, scalar_vars, array_vars, write_vars>>

\* Mutant of Store: the first value stored under a key stays.
StoreFirstWins(dict, key, value) ==
    [k \in DOMAIN dict \cup {key} |-> IF k \in DOMAIN dict THEN dict[k] ELSE value]

\* metadata[key] = value
Store(dict, key, value) ==
    [k \in DOMAIN dict \cup {key} |-> IF k = key THEN value ELSE dict[k]]

\* Mutant of ParseLine: a line that does not split in two is skipped.
ParseLineSkipping ==
    /\ pc = "for_line" /\ err = ""
    /\ lineno <= Len(file)
    /\ LET parts == Split(file[lineno], "=")
       IN  metadata' = IF Len(parts) = 2
                       THEN Store(metadata, Strip(parts[1]), Strip(parts[2]))
                       ELSE metadata
    /\ lineno' = lineno + 1
    /\ UNCHANGED <<arrays, disk_vars, other_vars, pc, err, scene_id, read_vars, scalar_vars, array_vars, write_vars>>

\* Mutant of ParseLine: a failing line empties the mapping built so far.
ParseLineDiscarding ==
    /\ pc = "for_line" /\ err = ""
    /\ lineno <= Len(file)
    /\ LET parts == Split(file[lineno], "=")
       IN  IF Len(parts) = 2
           THEN /\ metadata' = Store(metadata, Strip(parts[1]), Strip(parts[2]))
                /\ lineno' = lineno + 1
                /\ err' = ""
           ELSE /\ err' = "ValueError"
                /\ metadata' = EmptyDict
                /\ UNCHANGED lineno
    /\ UNCHANGED <<arrays, disk_vars, other_vars, pc, scene_id, read_vars, scalar_vars, array_vars, write_vars>>

\* One turn of the loop: key, value = line.split('='), then the store.
\* Unpacking anything but two pieces raises ValueError.
ParseLine ==
    /\ pc = "for_line" /\ err = ""
    /\ lineno <= Len(file)
    /\ LET parts == Split(file[lineno], "=")
       IN  IF Len(parts) = 2
           THEN /\ metadata' = Store(metadata, Strip(parts[1]), Strip(parts[2]))
                /\ lineno' = lineno + 1
                /\ err' = ""
           ELSE /\ err' = "ValueError"
                /\ UNCHANGED <<lineno, metadata>>
    /\ UNCHANGED <<arrays, disk_vars, other_vars, pc, scene_id, read_vars, scalar_vars, array_vars, write_vars>>

\* Mutant of SceneId: the scene id is looked up under the key ProductID.
SceneIdFromProductID ==
    /\ pc = "for_line" /\ err = ""
    /\ lineno > Len(file)
    /\ IF <<"ProductID">> \in DOMAIN metadata
       THEN /\ scene_id' = metadata[<<"ProductID">>]
            /\ pc' = "open_rasterio"
            /\ err' = ""
       ELSE /\ err' = "KeyError"
            /\ UNCHANGED <<pc, scene_id>>
    /\ UNCHANGED <<arrays, disk_vars, other_vars, lineno, metadata, read_vars, scalar_vars, array_vars, write_vars>>

\* After the loop: scene_id = metadata['OTSProductID']
SceneId ==
    /\ pc = "for_line" /\ err = ""
    /\ lineno > Len(file)
    /\ IF <<"OTSProductID">> \in DOMAIN metadata
       THEN /\ scene_id' = metadata[<<"OTSProductID">>]
            /\ pc' = "open_rasterio"
            /\ err' = ""
       ELSE /\ err' = "KeyError"
            /\ UNCHANGED <<pc, scene_id>>
    /\ UNCHANGED <<arrays, disk_vars, other_vars, lineno, metadata, read_vars, scalar_vars, array_vars, write_vars>>

(***************************************************************************)
(* Reading and masking the bands                                           *)
(***************************************************************************)
\* b2_ds, b3_ds, b4_ds = rxr.open_rasterio(<band path>, chunks=True)
OpenRasters ==
    /\ pc = "open_rasterio" /\ err = ""
    /\ arrays' = arrays \o [i \in 1..3 |-> OpenRasterio(BandOrder[i])]
    /\ b_ds' = [b \in Bands |-> New(BandNo(b))]
    /\ pc' = "scene"
    /\ UNCHANGED <<disk_vars, other_vars, err, parse_vars, scene, scalar_vars, array_vars, write_vars>>

\* Mutant of StackBands: BAND3 is stacked first, the labels stay in order.
StackBandsSwapped(of, first) ==
    << Concat(<<of["BAND3"], of["BAND2"], of["BAND4"]>>),
       AssignCoords(first, <<"BAND2", "BAND3", "BAND4">>) >>

\* xr.concat([x2, x3, x4], dim='band').assign_coords(band=['BAND2', ...]):
\* the two arrays it makes, the first of them getting index first.
StackBands(of, first) ==
    << Concat(<<of["BAND2"], of["BAND3"], of["BAND4"]>>),
       AssignCoords(first, <<"BAND2", "BAND3", "BAND4">>) >>

\* Mutant of MaskNoData: the sentinel is 255.
MaskSentinel255(array) == WhereNotEqual(array, Num(255, 1))

\* scene = scene.where(scene != 0)
MaskNoData(array) == WhereNotEqual(array, Num(0, 1))

StackScene ==
    /\ pc = "scene" /\ err = ""
    /\ arrays' = arrays \o StackBands(b_ds, New(1)) \o <<MaskNoData(New(2))>>
    /\ scene' = New(3)
    /\ pc' = "acq_date"
    /\ UNCHANGED <<disk_vars, other_vars, err, parse_vars, b_ds, scalar_vars, array_vars, write_vars>>

(***************************************************************************)
(* The scalars of the scene                                                *)
(***************************************************************************)
\* Mutant of SunZenithAngle: the elevation is taken for the zenith angle.
SunZenithIsElevation(sun_elevation_angle) == ParseFloat(sun_elevation_angle)

\* sun_zenith_angle = 90 - float(sun_elevation_angle)
SunZenithAngle(sun_elevation_angle) == Sub(Num(90, 1), ParseFloat(sun_elevation_angle))

\* acq_date and sun_zenith_angle from metadata; a missing key raises
\* KeyError, a malformed value ValueError.
AcquisitionDate ==
    /\ pc = "acq_date" /\ err = ""
    /\ IF <<"DateOfPass">> \notin DOMAIN metadata
       THEN err' = "KeyError" /\ UNCHANGED <<pc, acq_date, sun_zenith_angle>>
       ELSE IF ~StrptimeOk(metadata[<<"DateOfPass">>])
       THEN err' = "ValueError" /\ UNCHANGED <<pc, acq_date, sun_zenith_angle>>
       ELSE /\ acq_date' = Strptime(metadata[<<"DateOfPass">>])
            /\ IF <<"SunElevationAtCenter">> \notin DOMAIN metadata
               THEN err' = "KeyError" /\ UNCHANGED <<pc, sun_zenith_angle>>
               ELSE IF ~ParseFloatOk(metadata[<<"SunElevationAtCenter">>])
               THEN err' = "ValueError" /\ UNCHANGED <<pc, sun_zenith_angle>>
               ELSE /\ sun_zenith_angle' =
                          SunZenithAngle(metadata[<<"SunElevationAtCenter">>])
                    /\ pc' = "ephem"
                    /\ err' = ""
    /\ UNCHANGED <<arrays, disk_vars, other_vars, parse_vars, read_vars, d, b_sr, b_esun, pi,
                   sun_zenith_angle_rad, array_vars, write_vars>>

\* observer.date = acq_date; sun.compute(observer); d = sun.earth_distance
EarthSunDistance ==
    /\ pc = "ephem" /\ err = ""
    /\ d' = EarthDistance(acq_date)
    /\ pc' = "b_sr"
    /\ UNCHANGED <<arrays, disk_vars, other_vars, err, parse_vars, read_vars, acq_date, sun_zenith_angle,
                   b_sr, b_esun, pi, sun_zenith_angle_rad, array_vars, write_vars>>

\* b2_sr = 53.0; b3_sr = 47.0; b4_sr = 31.5
SaturationRadiance ==
    /\ pc = "b_sr" /\ err = ""
    /\ b_sr' = [b \in Bands |->
                  CASE b = "BAND2" -> Num(530, 10)
                    [] b = "BAND3" -> Num(470, 10)
                    [] b = "BAND4" -> Num(315, 10)]
    /\ pc' = "b_esun"
    /\ UNCHANGED <<arrays, disk_vars, other_vars, err, parse_vars, read_vars, acq_date, sun_zenith_angle,
                   d, b_esun, pi, sun_zenith_angle_rad, array_vars, write_vars>>

\* b2_esun = 181.89; b3_esun = 156.96; b4_esun = 110.48
SolarIrradiance ==
    /\ pc = "b_esun" /\ err = ""
    /\ b_esun' = [b \in Bands |->
                    CASE b = "BAND2" -> Num(18189, 100)
                      [] b = "BAND3" -> Num(15696, 100)
                      [] b = "BAND4" -> Num(11048, 100)]
    /\ pc' = "pi"
    /\ UNCHANGED <<arrays, disk_vars, other_vars, err, parse_vars, read_vars, acq_date, sun_zenith_angle,
                   d, b_sr, pi, sun_zenith_angle_rad, array_vars, write_vars>>

\* pi = math.pi; sun_zenith_angle_rad = math.radians(sun_zenith_angle)
OtherConstants ==
    /\ pc = "pi" /\ err = ""
    /\ pi' = MathPi
    /\ sun_zenith_angle_rad' = Radians(sun_zenith_angle)
    /\ pc' = "b_dn"
    /\ UNCHANGED <<arrays, disk_vars, other_vars, err, parse_vars, read_vars, acq_date, sun_zenith_angle,
                   d, b_sr, b_esun, array_vars, write_vars>>

(***************************************************************************)
(* DN to radiance to reflectance                                           *)
(***************************************************************************)
\* b2_dn = scene.sel(band='BAND2'), ...
SelectBands ==
    /\ pc = "b_dn" /\ err = ""
    /\ arrays' = arrays \o [i \in 1..3 |-> Sel(scene, BandOrder[i])]
    /\ b_dn' = [b \in Bands |-> New(BandNo(b))]
    /\ pc' = "b_rad"
    /\ UNCHANGED <<disk_vars, other_vars, err, parse_vars, read_vars, scalar_vars,
                   b_rad, b_ref, scene_ref, output_ds, output_file, write_vars>>

\* b2_rad = b2_dn*b2_sr/1024, ...: the two arrays the expression makes, the
\* first of them getting index first.
Radiance(band, first) ==
    << MulScalar(b_dn[band], b_sr[band]),
       DivScalar(first, Num(1024, 1)) >>

ToRadiance ==
    /\ pc = "b_rad" /\ err = ""
    /\ arrays' = arrays \o Radiance("BAND2", New(1)) \o Radiance("BAND3", New(3))
                        \o Radiance("BAND4", New(5))
    /\ b_rad' = [b \in Bands |-> New(2 * BandNo(b))]
    /\ pc' = "b_ref"
    /\ UNCHANGED <<disk_vars, other_vars, err, parse_vars, read_vars, scalar_vars,
                   b_dn, b_ref, scene_ref, output_ds, output_file, write_vars>>

\* Mutant of Reflectance: every band is divided by the irradiance of BAND2.
ReflectanceSameEsun(band, first) ==
    << MulScalar(b_rad[band], pi),
       MulScalar(first, d),
       MulScalar(first + 1, d),
       DivScalar(first + 2, Mul(b_esun["BAND2"], Cos(sun_zenith_angle_rad))) >>

\* b2_ref = (pi*b2_rad*d*d)/(b2_esun*math.cos(sun_zenith_angle_rad)), ...:
\* the four arrays the expression makes, the first getting index first.
Reflectance(band, first) ==
    << MulScalar(b_rad[band], pi),
       MulScalar(first, d),
       MulScalar(first + 1, d),
       DivScalar(first + 2, Mul(b_esun[band], Cos(sun_zenith_angle_rad))) >>

ToReflectance ==
    /\ pc = "b_ref" /\ err = ""
    /\ arrays' = arrays \o Reflectance("BAND2", New(1)) \o Reflectance("BAND3", New(5))
                        \o Reflectance("BAND4", New(9))
    /\ b_ref' = [b \in Bands |-> New(4 * BandNo(b))]
    /\ pc' = "scene_ref"
    /\ UNCHANGED <<disk_vars, other_vars, err, parse_vars, read_vars, scalar_vars,
                   b_dn, b_rad, scene_ref, output_ds, output_file, write_vars>>

\* reflectance_bands = [b2_ref, b3_ref, b4_ref]
\* scene_ref = xr.concat(reflectance_bands, dim='band').assign_coords(...)
StackReflectance ==
    /\ pc = "scene_ref" /\ err = ""
    /\ arrays' = arrays \o StackBands(b_ref, New(1))
    /\ scene_ref' = New(2)
    /\ pc' = "output_ds"
    /\ UNCHANGED <<disk_vars, other_vars, err, parse_vars, read_vars, scalar_vars,
                   b_dn, b_rad, b_ref, output_ds, output_file, write_vars>>

(***************************************************************************)
(* Writing the raster                                                      *)
(***************************************************************************)
\* output_ds = scene_ref.to_dataset('band'): one variable per label of the
\* band coordinate, each the selection of its layer
ToDataset ==
    /\ pc = "output_ds" /\ err = ""
    /\ LET names == Coords(scene_ref)
       IN  /\ arrays' = arrays \o [i \in 1..Len(names) |-> Sel(scene_ref, names[i])]
           /\ output_ds' = [name \in {names[i] : i \in 1..Len(names)} |->
                              New(IndexOf(names, name))]
    /\ pc' = "output_file"
    /\ UNCHANGED <<disk_vars, other_vars, err, parse_vars, read_vars, scalar_vars,
                   b_dn, b_rad, b_ref, scene_ref, output_file, write_vars>>

\* output_file = f'{scene_id}.tif'
OutputFile ==
    /\ pc = "output_file" /\ err = ""
    /\ output_file' = scene_id \o <<".tif">>
    /\ pc' = "to_raster"
    /\ UNCHANGED <<arrays, disk_vars, other_vars, err, parse_vars, read_vars, scalar_vars,
                   b_dn, b_rad, b_ref, scene_ref, output_ds, write_vars>>

\* The variables output_ds[['BAND2', 'BAND3', 'BAND4']] selects, in order:
\* the layers of the raster.
RasterLayers == <<"BAND2", "BAND3", "BAND4">>

\* output_ds[[...]].rio.to_raster(output_file, ...): the graph is handed to
\* the worker pool, one task per layer and pixel chunk.
ToRaster ==
    /\ pc = "to_raster" /\ err = ""
    /\ pending' = (1..Len(RasterLayers)) \X chunks
    /\ raster' = [t \in {} |-> NaN]
    /\ pc' = "compute"
    /\ UNCHANGED <<arrays, disk_vars, other_vars, err, parse_vars, read_vars, scalar_vars, array_vars, outputs>>

\* Mutant of TaskValue: a task reuses what the task of the first layer wrote
\* for the pixel, when that task ran before it.
TaskValueShared(i, p) ==
    IF <<1, p>> \in DOMAIN raster THEN raster[<<1, p>>]
    ELSE EvalPixel(output_ds[RasterLayers[i]], p)

\* What a task computes for pixel p of layer i.
TaskValue(i, p) == EvalPixel(output_ds[RasterLayers[i]], p)

\* A worker runs one pending task, whichever, and writes its pixels.
ComputeTask(i, c) ==
    /\ pc = "compute" /\ err = ""
    /\ <<i, c>> \in pending
    /\ raster' = [t \in DOMAIN raster \cup ({i} \X c) |->
                    IF t \in {i} \X c THEN TaskValue(i, t[2]) ELSE raster[t]]
    /\ pending' = pending \ {<<i, c>>}
    /\ UNCHANGED <<arrays, disk_vars, other_vars, pc, err, parse_vars, read_vars, scalar_vars, array_vars, outputs>>

\* Mutant of RasterWritten: the file counts as created while tasks are
\* still pending.
RasterWrittenEarly ==
    /\ pc = "compute" /\ err = ""
    /\ outputs' = outputs \cup
                    {[name |-> output_file, layers |-> RasterLayers, data |-> raster]}
    /\ pc' = "done"
    /\ UNCHANGED <<arrays, disk_vars, other_vars, err, parse_vars, read_vars, scalar_vars, array_vars,
                   pending, raster>>

\* Every task is done: the file exists; print('Output file created ...')
RasterWritten ==
    /\ pc = "compute" /\ err = ""
    /\ pending = {}
    /\ outputs' = outputs \cup
                    {[name |-> output_file, layers |-> RasterLayers, data |-> raster]}
    /\ pc' = "done"
    /\ UNCHANGED <<arrays, disk_vars, other_vars, err, parse_vars, read_vars, scalar_vars, array_vars,
                   pending, raster>>

(***************************************************************************)
(* The XEE notebook                                                        *)
(***************************************************************************)
\* if not os.path.exists(output_folder): os.mkdir(output_folder)
MakeOutputFolder ==
    /\ pc = "output_folder" /\ err = ""
    /\ local' = local \cup {OutputFolder}
    /\ pc' = "ee_initialize"
    /\ UNCHANGED <<pipeline_vars, err, liss4_zip, user_zip, downloads, run, env_vars,
                   log_vars, polygon_vars>>

\* The exception ee.Initialize raises, "" when it returns: it needs stored
\* credentials and the server.
EEInitialize(net, cred) ==
    IF ~cred THEN "EEException" ELSE IF ~net THEN "ConnectionError" ELSE ""

\* The exception ee.Authenticate raises, "" when it returns: with stored
\* credentials it has nothing to do; else the user signs in over the network.
EEAuthenticate(net, cred, agrees) ==
    IF cred THEN "" ELSE IF ~net THEN "ConnectionError"
    ELSE IF ~agrees THEN "EEException" ELSE ""

\* Mutant of InitializeEE: the second ee.Initialize is guarded as the first
\* is; its exception is caught too and the notebook goes on.
InitializeEEGuardedTwice ==
    /\ pc = "ee_initialize" /\ err = ""
    /\ LET first == EEInitialize(network, credentials)
           auth == EEAuthenticate(network, credentials, consent)
       IN  IF first = ""
           THEN /\ calls' = Append(calls, "ee.Initialize")
                /\ pc' = "country"
                /\ UNCHANGED <<err, caught, credentials>>
           ELSE IF auth # ""
           THEN /\ calls' = calls \o <<"ee.Initialize", "ee.Authenticate">>
                /\ caught' = Append(caught, first)
                /\ err' = auth
                /\ UNCHANGED <<pc, credentials>>
           ELSE /\ calls' = calls \o <<"ee.Initialize", "ee.Authenticate", "ee.Initialize">>
                /\ credentials' = TRUE
                /\ caught' = IF EEInitialize(network, TRUE) = "" THEN Append(caught, first)
                             ELSE caught \o <<first, EEInitialize(network, TRUE)>>
                /\ pc' = "country"
                /\ err' = ""
    /\ UNCHANGED <<pipeline_vars, select_vars, network, consent, installed, colab,
                   polygon_vars>>

\* try: ee.Initialize(...)  except: ee.Authenticate(); ee.Initialize(...)
\* The bare except catches whatever the first ee.Initialize raises; what
\* ee.Authenticate or the second ee.Initialize raises is not caught.
InitializeEE ==
    /\ pc = "ee_initialize" /\ err = ""
    /\ LET first == EEInitialize(network, credentials)
           auth == EEAuthenticate(network, credentials, consent)
       IN  IF first = ""
           THEN /\ calls' = Append(calls, "ee.Initialize")
                /\ pc' = "country"
                /\ UNCHANGED <<err, caught, credentials>>
           ELSE IF auth # ""
           THEN /\ calls' = calls \o <<"ee.Initialize", "ee.Authenticate">>
                /\ caught' = Append(caught, first)
                /\ err' = auth
                /\ UNCHANGED <<pc, credentials>>
           ELSE /\ calls' = calls \o <<"ee.Initialize", "ee.Authenticate", "ee.Initialize">>
                /\ caught' = Append(caught, first)
                /\ credentials' = TRUE
                /\ IF EEInitialize(network, TRUE) = ""
                   THEN pc' = "country" /\ err' = ""
                   ELSE err' = EEInitialize(network, TRUE) /\ UNCHANGED pc
    /\ UNCHANGED <<pipeline_vars, select_vars, network, consent, installed, colab,
                   polygon_vars>>

\* The cells from country = 'Kenya' to clipped_col = ...: they build
\* server-side objects and call no server.
SelectAndClip ==
    /\ pc = "country" /\ err = ""
    /\ pc' = "open_dataset"
    /\ UNCHANGED <<pipeline_vars, err, other_vars>>

\* ds = xarray.open_dataset(clipped_col, engine='ee', ...) asks the server
\* for the grid; da = ds.isel(time=0).b1 is lazy.
OpenDataset ==
    /\ pc = "open_dataset" /\ err = ""
    /\ calls' = Append(calls, "xarray.open_dataset")
    /\ IF network THEN pc' = "to_raster_cog" /\ err' = ""
       ELSE err' = "ConnectionError" /\ UNCHANGED pc
    /\ UNCHANGED <<pipeline_vars, select_vars, env_vars, caught, polygon_vars>>

\* da_export.rio.to_raster(output_path, driver='COG') fetches the pixels
\* and writes output/population.tif
ExportRaster ==
    /\ pc = "to_raster_cog" /\ err = ""
    /\ calls' = Append(calls, "rio.to_raster")
    /\ IF network
       THEN /\ local' = local \cup {PopulationTif}
            /\ pc' = "xee_done" /\ err' = ""
       ELSE err' = "ConnectionError" /\ UNCHANGED <<pc, local>>
    /\ UNCHANGED <<pipeline_vars, liss4_zip, user_zip, downloads, run, env_vars, caught,
                   polygon_vars>>

\* The network goes down between two cells of the XEE notebook.
NetworkDrops ==
    /\ pc \in {"ee_initialize", "country", "open_dataset", "to_raster_cog"} /\ err = ""
    /\ network
    /\ network' = FALSE
    /\ UNCHANGED <<pipeline_vars, pc, err, select_vars, credentials, consent, installed,
                   colab, log_vars, polygon_vars>>

(***************************************************************************)
(* The geographiclib notebook                                              *)
(***************************************************************************)
\* try: import geographiclib
\* except ModuleNotFoundError: on Colab !pip install geographiclib (a shell
\* command: it raises nothing, and installs when the network is there),
\* else print(...)
ImportOrInstall ==
    /\ pc = "import_geographiclib" /\ err = ""
    /\ IF installed
       THEN /\ calls' = Append(calls, "import geographiclib")
            /\ UNCHANGED <<caught, installed>>
       ELSE /\ caught' = Append(caught, "ModuleNotFoundError")
            /\ IF colab
               THEN /\ calls' = calls \o <<"import geographiclib", "pip install">>
                    /\ installed' = network
               ELSE /\ calls' = Append(calls, "import geographiclib")
                    /\ UNCHANGED installed
    /\ pc' = "import_geodesic"
    /\ UNCHANGED <<pipeline_vars, err, select_vars, network, credentials, consent, colab,
                   polygon_vars>>

\* from geographiclib.geodesic import Geodesic
ImportGeodesic ==
    /\ pc = "import_geodesic" /\ err = ""
    /\ calls' = Append(calls, "import geographiclib.geodesic")
    /\ IF installed THEN pc' = "polygon" /\ err' = ""
       ELSE err' = "ModuleNotFoundError" /\ UNCHANGED pc
    /\ UNCHANGED <<pipeline_vars, select_vars, env_vars, caught, polygon_vars>>

\* ellipsoid = Geodesic.WGS84; points = [...]; polygon = ellipsoid.Polygon()
NewPolygon ==
    /\ pc = "polygon" /\ err = ""
    /\ polygon' = <<>>
    /\ vertex' = 1
    /\ pc' = "add_point"
    /\ UNCHANGED <<pipeline_vars, err, select_vars, env_vars, log_vars, points, result>>

\* Mutant of AddPoint: the arguments are taken as (longitude, latitude).
AddPointLonLat(poly, lat, lon) == Append(poly, [lat |-> lon, lon |-> lat])

\* PolygonArea.AddPoint(lat, lon)
AddPoint(poly, lat, lon) == Append(poly, [lat |-> lat, lon |-> lon])

\* for x, y in points: polygon.AddPoint(x, y)
AddNextPoint ==
    /\ pc = "add_point" /\ err = ""
    /\ vertex <= Len(points)
    /\ LET x == points[vertex][1]
           y == points[vertex][2]
       IN  polygon' = AddPoint(polygon, x, y)
    /\ vertex' = vertex + 1
    /\ UNCHANGED <<pipeline_vars, pc, err, select_vars, env_vars, log_vars, points, result>>

\* The vertex after vertex i of a closed polygon.
NextVertex(poly, i) == IF i = Len(poly) THEN 1 ELSE i + 1

RECURSIVE SumTo(_, _)
SumTo(f, n) == IF n = 0 THEN 0 ELSE f[n] + SumTo(f, n - 1)

\* The signed area PolygonArea.Compute() returns, counter-clockwise positive,
\* here that of the polygon in the plane of longitude and latitude.
SignedArea(poly) ==
    LET cross == [i \in 1..Len(poly) |->
                    poly[i].lon * poly[NextVertex(poly, i)].lat
                    - poly[NextVertex(poly, i)].lon * poly[i].lat]
    IN  Rat(SumTo(cross, Len(poly)), 2)

\* The perimeter, here with the length of an edge taken along the
\* meridian and the parallel.
Perimeter(poly) ==
    LET edge == [i \in 1..Len(poly) |->
                   Abs(poly[NextVertex(poly, i)].lat - poly[i].lat)
                   + Abs(poly[NextVertex(poly, i)].lon - poly[i].lon)]
    IN  SumTo(edge, Len(poly))

\* polygon.Compute(): the number of vertices, the perimeter, the area
Compute(poly) == <<Len(poly), Perimeter(poly), SignedArea(poly)>>

\* After the loop: num_points, perimeter, area = polygon.Compute()
ComputePolygon ==
    /\ pc = "add_point" /\ err = ""
    /\ vertex > Len(points)
    /\ result' = Compute(polygon)
    /\ pc' = "geo_done"
    /\ UNCHANGED <<pipeline_vars, err, select_vars, env_vars, log_vars, points, vertex,
                   polygon>>

Next ==
    \/ OpenMetadata
    \/ ParseLine
    \/ SceneId
    \/ OpenRasters
    \/ StackScene
    \/ AcquisitionDate
    \/ EarthSunDistance
    \/ SaturationRadiance
    \/ SolarIrradiance
    \/ OtherConstants
    \/ SelectBands
    \/ ToRadiance
    \/ ToReflectance
    \/ StackReflectance
    \/ ToDataset
    \/ OutputFile
    \/ ToRaster
    \/ \E i \in 1..Len(RasterLayers), c \in chunks : ComputeTask(i, c)
    \/ RasterWritten
    \/ SetLiss4Zip
    \/ DownloadSample
    \/ StartClient
    \/ Unzip
    \/ RunAgain
    \/ MakeOutputFolder
    \/ InitializeEE
    \/ SelectAndClip
    \/ OpenDataset
    \/ ExportRaster
    \/ NetworkDrops
    \/ ImportOrInstall
    \/ ImportGeodesic
    \/ NewPolygon
    \/ AddNextPoint
    \/ ComputePolygon

Spec == Init /\ [][Next]_vars

(***************************************************************************)
(* What the text of the metadata file says, read off the file directly     *)
(***************************************************************************)
Max(S) == CHOOSE x \in S : \A y \in S : y <= x
Min(S) == CHOOSE x \in S : \A y \in S : x <= y

CountEq(line) == Cardinality({i \in 1..Len(line) : line[i] = "="})

FirstEq(line) == Min({i \in 1..Len(line) : line[i] = "="})

\* s between its first and its last token that is not whitespace.
Trimmed(s) ==
    LET solid == {i \in 1..Len(s) : s[i] \notin {" ", "\n"}}
    IN  IF solid = {} THEN <<>> ELSE SubSeq(s, Min(solid), Max(solid))

\* The text before and after the first "=" of a line, trimmed.
KeyText(line) == Trimmed(SubSeq(line, 1, FirstEq(line) - 1))
ValueText(line) == Trimmed(SubSeq(line, FirstEq(line) + 1, Len(line)))

\* Every line of the file has the form key= value.
KeyValueLines == \A i \in 1..Len(file) : CountEq(file[i]) = 1

\* The first n lines that hold key, when all of them are key= value lines.
LinesWithKey(key, n) == {i \in 1..n : KeyText(file[i]) = key}

\* The mapping the first n lines of the file describe.
TextDict(n) ==
    LET keys == [i \in 1..n |-> KeyText(file[i])]
    IN  [k \in {keys[i] : i \in 1..n} |->
            ValueText(file[Max({i \in 1..n : keys[i] = k})])]

\* The cells of the correction pipeline in the order they run.
CellOrder ==
    << "metadata", "for_line", "open_rasterio", "scene", "acq_date", "ephem",
       "b_sr", "b_esun", "pi", "b_dn", "b_rad", "b_ref", "scene_ref",
       "output_ds", "output_file", "to_raster", "compute", "done" >>

\* The place of each cell in that order.
CellNumber ==
    [c \in {CellOrder[i] : i \in 1..Len(CellOrder)} |->
        CHOOSE i \in 1..Len(CellOrder) : CellOrder[i] = c]

\* The run is at a cell of the correction pipeline.
InPipeline == pc \in DOMAIN CellNumber

\* The run is past the cell named.
Past(cell) == InPipeline /\ CellNumber[cell] < CellNumber[pc]

\* The metadata loop has consumed every line.
LoopDone == pc # "metadata" /\ lineno > Len(file)

(***************************************************************************)
(* C1: for a metadata text in which every line has the form key= value,    *)
(* the parsed mapping holds exactly the distinct trimmed keys, and each    *)
(* key maps to the trimmed value of its last line.                         *)
(***************************************************************************)
C1_LastWriteWins ==
    (KeyValueLines /\ LoopDone) => metadata = TextDict(Len(file))

\* A parsed file in which a key occurs on two lines with different values
\* and some key has whitespace around it.
C1_Witness ==
    /\ KeyValueLines /\ LoopDone
    /\ \E i, j \in 1..Len(file) :
          /\ i < j
          /\ KeyText(file[i]) = KeyText(file[j])
          /\ ValueText(file[i]) # ValueText(file[j])
          /\ metadata[KeyText(file[i])] = ValueText(file[j])
    /\ \E i \in 1..Len(file) :
          KeyText(file[i]) # SubSeq(file[i], 1, FirstEq(file[i]) - 1)

(***************************************************************************)
(* C2 as stated: a line with two or more "=" is split at the first one     *)
(* only; its key and the rest of the line are stored and parsing goes on.  *)
(***************************************************************************)
C2_SplitsAtFirstEqualsOnly ==
    \A i \in 1..Len(file) :
        CountEq(file[i]) >= 2 =>
            /\ ~(pc = "for_line" /\ lineno = i /\ err # "")
            /\ (pc = "for_line" /\ lineno = i + 1 =>
                    /\ KeyText(file[i]) \in DOMAIN metadata
                    /\ metadata[KeyText(file[i])] = ValueText(file[i]))

(***************************************************************************)
(* C2 amended: the line is split at every "="; a line with two or more     *)
(* "=" does not unpack into key and value, so the loop halts at that line  *)
(* with ValueError, stores nothing for it and parses no later line.        *)
(***************************************************************************)
C2_TwoEqualsRaisesValueError ==
    \A i \in 1..Len(file) :
        CountEq(file[i]) >= 2 =>
            /\ lineno <= i
            /\ pc \in {"metadata", "for_line"}
            /\ (lineno = i /\ pc = "for_line" =>
                    /\ err \in {"", "ValueError"}
                    /\ metadata = TextDict(i - 1))

\* The loop halted at a line with two "=" after parsing the lines before.
C2_Witness ==
    /\ pc = "for_line" /\ err = "ValueError"
    /\ lineno > 1
    /\ CountEq(file[lineno]) >= 2
    /\ metadata = TextDict(lineno - 1)
    /\ metadata # EmptyDict

(***************************************************************************)
(* C3: a line without "=" (a blank line too) halts the loop at that line   *)
(* with an error; no later line is parsed and no later cell runs: no band  *)
(* is read, no array is made, no raster is written.                        *)
(***************************************************************************)
C3_LineWithoutEqualsHalts ==
    \A i \in 1..Len(file) :
        CountEq(file[i]) = 0 =>
            /\ lineno <= i
            /\ pc \in {"metadata", "for_line"}
            /\ err \in {"", "ValueError"}
            /\ (pc = "for_line" => metadata = TextDict(lineno - 1))
            /\ arrays = <<>> /\ b_ds = NoArrays
            /\ raster = [t \in {} |-> NaN] /\ outputs = {}

\* The loop halted at a blank first line; three more lines follow it.
C3_Witness ==
    /\ pc = "for_line" /\ err = "ValueError"
    /\ lineno = 1 /\ Len(file) = 4
    /\ file[1] = <<"\n">>
    /\ metadata = EmptyDict

(***************************************************************************)
(* What the radiometric correction is to compute, from its formulas        *)
(***************************************************************************)
\* Saturation radiance and solar irradiance of each band.
ClaimSR(band) ==
    CASE band = "BAND2" -> Num(530, 10)
      [] band = "BAND3" -> Num(470, 10)
      [] band = "BAND4" -> Num(315, 10)

ClaimESUN(band) ==
    CASE band = "BAND2" -> Num(18189, 100)
      [] band = "BAND3" -> Num(15696, 100)
      [] band = "BAND4" -> Num(11048, 100)

\* DN * SR / 1024
ClaimRadiance(band, dn) == Div(Mul(Num(dn, 1), ClaimSR(band)), Num(1024, 1))

\* (pi * radiance * dist^2) / (ESUN * cos(zenith_rad))
ClaimReflectance(band, dn, dist, zenith_rad) ==
    Div(Mul(Mul(MathPi, ClaimRadiance(band, dn)), Mul(dist, dist)),
        Mul(ClaimESUN(band), Cos(zenith_rad)))

\* The digital number BAND<i>.tif holds for pixel t[2] of layer t[1].
SourceDN(t) == disk[BandOrder[t[1]]][t[2]]

(***************************************************************************)
(* C4: the reflectance written for a band and an unmasked pixel is         *)
(* (pi * (DN * SR / 1024) * d^2) / (ESUN * cos(zenith_rad)) with the SR    *)
(* and ESUN of that same band.                                             *)
(***************************************************************************)
C4_ReflectanceOwnBandConstants ==
    \A o \in outputs : \A t \in DOMAIN o.data :
        SourceDN(t) # 0 =>
            o.data[t] = ClaimReflectance(BandOrder[t[1]], SourceDN(t), d,
                                         sun_zenith_angle_rad)

\* The raster is written, every band has an unmasked pixel, and two bands
\* hold the same digital number but not the same reflectance for it.
C4_Witness ==
    /\ pc = "done"
    /\ \A i \in 1..3 : \E p \in Pixels : SourceDN(<<i, p>>) # 0
    /\ \E t, u \in DOMAIN raster :
          /\ t[1] # u[1]
          /\ SourceDN(t) = SourceDN(u) /\ SourceDN(t) # 0
          /\ raster[t] # raster[u]
          /\ ~raster[t].nan /\ ~raster[u].nan

(***************************************************************************)
(* C5: a pixel whose digital number is the NoData sentinel 0 is the        *)
(* missing value in the scene before the radiance step runs, and in the    *)
(* radiance array, the reflectance array, the stacked output and the       *)
(* raster written; it never holds a number.                                *)
(***************************************************************************)
C5_NoDataStaysMissing ==
    \A i \in 1..3, p \in Pixels :
        SourceDN(<<i, p>>) = 0 =>
            LET b == BandOrder[i]
            IN  /\ scene # 0 => EvalLayer(scene, i, p) = NaN
                /\ b_dn[b] # 0 => EvalPixel(b_dn[b], p) = NaN
                /\ b_rad[b] # 0 => EvalPixel(b_rad[b], p) = NaN
                /\ b_ref[b] # 0 => EvalPixel(b_ref[b], p) = NaN
                /\ scene_ref # 0 => EvalLayer(scene_ref, i, p) = NaN
                /\ <<i, p>> \in DOMAIN raster => raster[<<i, p>>] = NaN
                /\ \A o \in outputs : o.data[<<i, p>>] = NaN

\* A raster is written whose source holds the sentinel in one pixel and a
\* digital number in the other pixel of the same band.
C5_Witness ==
    /\ pc = "done"
    /\ \E o \in outputs : \E i \in 1..3, p, r \in Pixels :
          /\ SourceDN(<<i, p>>) = 0 /\ o.data[<<i, p>>] = NaN
          /\ SourceDN(<<i, r>>) # 0 /\ o.data[<<i, r>>] # NaN

(***************************************************************************)
(* C6: within a band of a scene, radiance and reflectance are linear in    *)
(* the digital number: a pixel that holds twice the (unmasked) digital     *)
(* number of another has twice its radiance and twice its reflectance.     *)
(***************************************************************************)
\* 2 * x
Twice(x) == IF x.nan THEN NaN ELSE Float(Rat(2 * x.q[1], x.q[2]), x.sym)

C6_LinearInDN ==
    \A b \in Bands, p, r \in Pixels :
        (disk[b][p] # 0 /\ disk[b][r] = 2 * disk[b][p]) =>
            /\ (pc = "b_ref") =>
                    /\ ~EvalPixel(b_rad[b], p).nan
                    /\ EvalPixel(b_rad[b], r) = Twice(EvalPixel(b_rad[b], p))
            /\ (pc = "scene_ref") =>
                    /\ ~EvalPixel(b_ref[b], p).nan
                    /\ EvalPixel(b_ref[b], r) = Twice(EvalPixel(b_ref[b], p))
            /\ \A o \in outputs :
                    /\ ~o.data[<<BandNo(b), p>>].nan
                    /\ o.data[<<BandNo(b), r>>] = Twice(o.data[<<BandNo(b), p>>])

\* A raster is written with a band that holds the digital numbers 1 and 2.
C6_Witness ==
    /\ pc = "done" /\ outputs # {}
    /\ \E b \in Bands, p, r \in Pixels :
          /\ disk[b][p] = 1 /\ disk[b][r] = 2
          /\ EvalPixel(b_rad[b], r) = Twice(EvalPixel(b_rad[b], p))
          /\ EvalPixel(b_rad[b], r) # EvalPixel(b_rad[b], p)

(***************************************************************************)
(* C7: the solar zenith angle is 90 minus the SunElevationAtCenter of the  *)
(* metadata (45.32 gives 44.68), the Earth-Sun distance is that of the     *)
(* DateOfPass of the metadata and of nothing else, both are set once,      *)
(* after the metadata is parsed, and the reflectance of every band is      *)
(* computed with that distance and that angle.                             *)
(***************************************************************************)
\* 90 minus the elevation a metadata value spells.
ClaimZenith(word) ==
    CASE word = <<"45.32">> -> Num(4468, 100)
      [] word = <<"30.5">>  -> Num(595, 10)
      [] word = <<"0">>     -> Num(90, 1)

\* The Earth-Sun distance on the day a metadata value spells.
ClaimDistance(word) ==
    CASE word = <<"04-MAR-2023">> -> Atom("earth_distance", 20230304, 1)
      [] word = <<"04-JUL-2023">> -> Atom("earth_distance", 20230704, 1)

C7_ZenithAndDistanceFromMetadata ==
    /\ ~Past("acq_date") => sun_zenith_angle = NaN
    /\ ~Past("ephem") => d = NaN
    /\ Past("acq_date") =>
            /\ LoopDone
            /\ sun_zenith_angle = ClaimZenith(metadata[<<"SunElevationAtCenter">>])
    /\ Past("ephem") =>
            d = ClaimDistance(metadata[<<"DateOfPass">>])
    /\ \A o \in outputs : \A t \in DOMAIN o.data :
          SourceDN(t) # 0 =>
              o.data[t] =
                  ClaimReflectance(BandOrder[t[1]], SourceDN(t),
                      ClaimDistance(metadata[<<"DateOfPass">>]),
                      Radians(ClaimZenith(metadata[<<"SunElevationAtCenter">>])))

\* A raster is written for a sun elevation of 45.32 degrees: the zenith
\* angle is 44.68 degrees and every band holds a reflectance.
C7_Witness ==
    /\ pc = "done"
    /\ metadata[<<"SunElevationAtCenter">>] = <<"45.32">>
    /\ sun_zenith_angle = Num(4468, 100)
    /\ d = Atom("earth_distance", 20230304, 1)
    /\ \A i \in 1..3 : \E p \in Pixels : ~raster[<<i, p>>].nan

(***************************************************************************)
(* C8 as stated: a metadata file of key= value lines that holds DateOfPass *)
(* and SunElevationAtCenter with well-formed values lets the pipeline run  *)
(* to the raster write, whatever other keys it holds or lacks.             *)
(***************************************************************************)
\* The text holds key, and a value for it that the predicate accepts.
TextHolds(key, WellFormed(_)) ==
    /\ \E i \in 1..Len(file) : KeyText(file[i]) = key
    /\ WellFormed(TextDict(Len(file))[key])

TwoKeysWellFormed ==
    /\ KeyValueLines
    /\ TextHolds(<<"DateOfPass">>, StrptimeOk)
    /\ TextHolds(<<"SunElevationAtCenter">>, ParseFloatOk)

C8_TwoKeysSuffice ==
    (err # "" /\ InPipeline) => ~TwoKeysWellFormed

(***************************************************************************)
(* C8 amended: the pipeline requires three keys.  With OTSProductID too,   *)
(* the run never halts before the raster is written, whatever other keys   *)
(* the file holds; without OTSProductID it halts with KeyError right after *)
(* the metadata loop, before any band is read.                             *)
(***************************************************************************)
AnyValue(value) == TRUE

C8_ThreeKeysSuffice ==
    /\ (err # "" /\ InPipeline) =>
            ~(TwoKeysWellFormed /\ TextHolds(<<"OTSProductID">>, AnyValue))
    /\ \/ /\ pc \in {"metadata", "for_line"}
          /\ err \in {"", "KeyError"}
          /\ (err = "KeyError" => LoopDone)
          /\ arrays = <<>> /\ outputs = {}
       \/ ~KeyValueLines
       \/ TextHolds(<<"OTSProductID">>, AnyValue)

\* A raster is written from a metadata file that holds a fourth key.
C8_Witness ==
    /\ pc = "done" /\ outputs # {}
    /\ TwoKeysWellFormed
    /\ \E key \in DOMAIN metadata :
          key \notin {<<"OTSProductID">>, <<"DateOfPass">>, <<"SunElevationAtCenter">>}

(***************************************************************************)
(* C9: the run writes exactly one raster, <scene_id>.tif with the scene id *)
(* of the metadata, with the three layers BAND2, BAND3, BAND4 in this      *)
(* order; the layer named BANDi holds the reflectance computed from        *)
(* BANDi.tif.  No raster exists before the write is complete.              *)
(***************************************************************************)
\* The reflectance of digital number dn of a band, 0 being NoData.
ClaimPixel(band, dn) ==
    IF dn = 0 THEN NaN ELSE ClaimReflectance(band, dn, d, sun_zenith_angle_rad)

C9_OneRasterThreeNamedLayers ==
    /\ pc # "done" => outputs = {}
    /\ pc = "done" =>
          /\ Cardinality(outputs) = 1
          /\ \A o \in outputs :
                /\ o.name = ValueText(file[Max(LinesWithKey(<<"OTSProductID">>, Len(file)))])
                                \o <<".tif">>
                /\ o.layers = <<"BAND2", "BAND3", "BAND4">>
                /\ DOMAIN o.data = (1..3) \X Pixels
                /\ \A i \in 1..3, p \in Pixels :
                      o.data[<<i, p>>] = ClaimPixel(o.layers[i], disk[o.layers[i]][p])

\* The raster of a scene whose three bands differ in every pixel.
C9_Witness ==
    /\ pc = "done"
    /\ \E o \in outputs :
          /\ o.name = <<"RAF20FEB2023", ".tif">>
          /\ \A i, j \in 1..3 : \A p \in Pixels :
                i # j => /\ disk[BandOrder[i]][p] # disk[BandOrder[j]][p]
                         /\ o.data[<<i, p>>] # o.data[<<j, p>>]

(***************************************************************************)
(* C10: whatever the order in which the worker pool runs the tasks, every  *)
(* pixel written is the reflectance of the same band and pixel of the      *)
(* input under the scalars of the scene, the pixels written are those of   *)
(* the tasks that ran, and the raster created is the same.                 *)
(***************************************************************************)
\* The pixels of the tasks that have not run.
PendingPixels == UNION {{t[1]} \X t[2] : t \in pending}

C10_TaskOrderIndependent ==
    /\ pc \in {"compute", "done"} =>
          /\ DOMAIN raster = ((1..3) \X Pixels) \ PendingPixels
          /\ \A t \in DOMAIN raster :
                raster[t] = ClaimPixel(BandOrder[t[1]], SourceDN(t))
    /\ \A o \in outputs :
          o.data = [t \in (1..3) \X Pixels |-> ClaimPixel(BandOrder[t[1]], SourceDN(t))]

\* The tasks run one per pixel, and a task of the last layer has run
\* before the tasks of the first layer.
C10_Witness ==
    /\ pc = "compute"
    /\ chunks = {{p} : p \in Pixels}
    /\ \E p \in Pixels :
          /\ <<3, {p}>> \notin pending /\ ~raster[<<3, p>>].nan
          /\ \A r \in Pixels : <<1, {r}>> \in pending

Count(seq, x) == Cardinality({i \in 1..Len(seq) : seq[i] = x})

C12_NothingCaughtNothingRetried ==
    /\ caught = <<>>
    /\ \A i \in 1..Len(calls) : Count(calls, calls[i]) = 1

(***************************************************************************)
(* C12 amended: the LISS4 notebook catches nothing and repeats nothing.    *)
(* The XEE notebook catches what its first ee.Initialize raises, calls     *)
(* ee.Authenticate and then ee.Initialize a second time; the geographiclib *)
(* notebook catches the ModuleNotFoundError of its first import.  Nothing  *)
(* else is caught or repeated: any other fault is the last thing the run   *)
(* does.                                                                   *)
(***************************************************************************)
SelectCells == {"liss4_zip", "download", "client", "unzip", "unzipped"}
XeeCells == {"output_folder", "ee_initialize", "country", "open_dataset",
             "to_raster_cog", "xee_done"}
PolygonCells == {"import_geographiclib", "import_geodesic", "polygon", "add_point",
                 "geo_done"}

\* The library calls of the cell the run is at that can raise.
RaisingCalls ==
    CASE pc = "download" -> {"urlretrieve"}
      [] pc = "unzip" -> {"ZipFile"}
      [] pc = "ee_initialize" -> {"ee.Authenticate", "ee.Initialize"}
      [] pc = "open_dataset" -> {"xarray.open_dataset"}
      [] pc = "to_raster_cog" -> {"rio.to_raster"}
      [] pc = "import_geodesic" -> {"import geographiclib.geodesic"}
      [] OTHER -> {}

C12_OnlyFirstInitializeAndImportCaught ==
    /\ (InPipeline \/ pc \in SelectCells) =>
            /\ caught = <<>>
            /\ \A i \in 1..Len(calls) : Count(calls, calls[i]) = 1
    /\ (InPipeline /\ err # "") => pc \in {"for_line", "acq_date"}
    /\ pc \in XeeCells =>
            /\ \A i \in 1..Len(calls) :
                    calls[i] # "ee.Initialize" => Count(calls, calls[i]) = 1
            /\ caught = <<>> => Count(calls, "ee.Initialize") <= 1
            /\ caught # <<>> =>
                    /\ Len(caught) = 1
                    /\ caught[1] \in {"EEException", "ConnectionError"}
                    /\ Len(calls) >= 2
                    /\ SubSeq(calls, 1, 2) = <<"ee.Initialize", "ee.Authenticate">>
                    /\ Count(calls, "ee.Initialize") =
                           (IF Len(calls) = 2 THEN 1 ELSE 2)
                    /\ Len(calls) > 2 => calls[3] = "ee.Initialize"
                    /\ (Len(calls) = 2) => (pc = "ee_initialize" /\ err # "")
    /\ pc \in PolygonCells =>
            /\ \A i \in 1..Len(calls) : Count(calls, calls[i]) = 1
            /\ caught \in {<<>>, <<"ModuleNotFoundError">>}
            /\ caught # <<>> => calls[1] = "import geographiclib"
    /\ (err # "" /\ ~InPipeline) =>
            /\ calls # <<>>
            /\ calls[Len(calls)] \in RaisingCalls

\* The XEE notebook finished after its first ee.Initialize raised, was
\* caught, and the second one succeeded.
C12_Witness ==
    /\ pc = "xee_done" /\ err = ""
    /\ caught # <<>>
    /\ Count(calls, "ee.Initialize") = 2

(***************************************************************************)
(* C13: the polygon-area cells add every vertex of points exactly once,    *)
(* in order, as (latitude, longitude); Compute returns as many vertices as *)
(* points holds, and a signed area; on the same vertices in reversed order *)
(* it returns the same count and the negated area.                         *)
(***************************************************************************)
Reverse(seq) == [i \in 1..Len(seq) |-> seq[Len(seq) + 1 - i]]

\* The accumulator after the AddPoint loop has run over pts.
RECURSIVE AddAll(_, _)
AddAll(poly, pts) ==
    IF pts = <<>> THEN poly
    ELSE AddAll(AddPoint(poly, Head(pts)[1], Head(pts)[2]), Tail(pts))

\* What the cells compute for the vertex list pts.
RunOn(pts) == Compute(AddAll(<<>>, pts))

ParseFailed == pc = "for_line" /\ err = "ValueError"

C14_PrecedingPairsStayVisible ==
    ParseFailed =>
        /\ lineno <= Len(file)
        /\ CountEq(file[lineno]) # 1
        /\ \A i \in 1..(lineno - 1) : CountEq(file[i]) = 1
        /\ metadata = TextDict(lineno - 1)
        /\ scene_id = <<>>
        /\ arrays = <<>> /\ outputs = {}

\* C14 as stated: after a failure the mapping holds none of the pairs of
\* the lines before the failing line.
C14_NothingVisibleAfterFailure ==
    ParseFailed => metadata = EmptyDict

\* The last line of the file fails; the three lines before it are held.
C14_Witness ==
    /\ ParseFailed
    /\ lineno = 4
    /\ DOMAIN metadata = {<<"OTSProductID">>, <<"DateOfPass">>, <<"SunElevationAtCenter">>}

(***************************************************************************)
(* C15: a scene whose SunElevationAtCenter is 0 is not rejected: no step   *)
(* raises, the zenith is 90 degrees, the division by ESUN * cos(zenith)    *)
(* is carried out, and the raster is written.  math.cos of the double      *)
(* nearest pi/2 is not 0, so the reflectance of every unmasked pixel is a  *)
(* finite number.                                                          *)
(***************************************************************************)
\* x is a number: neither nan nor an infinity.
IsFinite(x) == ~x.nan /\ x.q[2] # 0

IsZeroText(value) == value = <<"0">>

\* The metadata file is well-formed and puts the sun at the horizon.
SunAtHorizon ==
    /\ InPipeline
    /\ \E i \in 1..Len(file) : \E j \in 1..Len(file[i]) : file[i][j] = "0"
    /\ TwoKeysWellFormed
    /\ TextHolds(<<"OTSProductID">>, AnyValue)
    /\ TextHolds(<<"SunElevationAtCenter">>, IsZeroText)

C15_HorizonReflectanceFinite ==
    SunAtHorizon =>
        /\ err = ""
        /\ Past("acq_date") => sun_zenith_angle = Num(90, 1)
        /\ Past("pi") => sun_zenith_angle_rad = Div(MathPi, Num(2, 1))
        /\ \A o \in outputs : \A t \in DOMAIN o.data :
              SourceDN(t) # 0 =>
                  /\ o.data[t] = ClaimReflectance(BandOrder[t[1]], SourceDN(t), d,
                                                  Div(MathPi, Num(2, 1)))
                  /\ IsFinite(o.data[t])

\* C15 as stated: the reflectance of every unmasked pixel is not finite.
C15_HorizonReflectanceNonFinite ==
    SunAtHorizon =>
        /\ err = ""
        /\ \A o \in outputs : \A t \in DOMAIN o.data :
              SourceDN(t) # 0 => ~IsFinite(o.data[t])

\* The raster of a horizon scene is written and holds a number.
C15_Witness ==
    /\ pc = "done" /\ SunAtHorizon
    /\ \E o \in outputs : \E t \in DOMAIN o.data :
          SourceDN(t) # 0 /\ IsFinite(o.data[t])

(***************************************************************************)
(* C16: a liss4_zip left empty becomes the sample's file name, and the     *)
(* sample is fetched only in a run that finds no file of that name; once   *)
(* fetched, a later run fetches nothing.  A liss4_zip the user filled in   *)
(* keeps its value, and nothing is ever fetched.                           *)
(***************************************************************************)
\* The download cell has run in this run, or has raised.
DownloadCellRan == pc \in {"client", "unzip", "unzipped"} \/ (pc = "download" /\ err # "")

SelectionState ==
    /\ pc \in SelectCells =>
          /\ (pc = "download" /\ err = "") => liss4_zip = user_zip
          /\ DownloadCellRan =>
                liss4_zip = (IF user_zip = "" THEN SampleZip ELSE user_zip)
          /\ (DownloadCellRan /\ user_zip = "" /\ err # "URLError") => SampleZip \in local
          /\ err = "URLError" => (user_zip = "" /\ SampleZip \notin local /\ ~network)
    /\ user_zip # "" => (downloads = <<>> /\ Count(calls, "urlretrieve") = 0)
    /\ Len(downloads) <= 1
    /\ downloads # <<>> => SampleZip \in local

\* A step that fetches: liss4_zip was empty, no file had the sample's name,
\* and nothing but the sample's file is new.
FetchStep ==
    (downloads' # downloads \/ (pc \in SelectCells /\ local' # local)) =>
        /\ pc = "download" /\ liss4_zip = ""
        /\ SampleZip \notin local
        /\ local' = local \cup {SampleZip}
        /\ downloads' = Append(downloads, run)

C16_SampleFetchedOnlyWhenAbsent ==
    []SelectionState /\ [][FetchStep]_vars

\* A second run that names the sample the first run fetched, and fetches
\* nothing.
C16_Witness ==
    /\ run = 2 /\ pc = "unzipped"
    /\ user_zip = "" /\ liss4_zip = SampleZip
    /\ downloads = <<1>>
    /\ Count(calls, "urlretrieve") = 0

(***************************************************************************)
(* C17: a pixel is missing in band i exactly when its digital number in    *)
(* BANDi.tif is 0: in the masked scene, in the band selected from it and   *)
(* in the band's layer of the raster written.                              *)
(* A zero in one band does not mask the pixel in another band.             *)
(***************************************************************************)
C17_MaskPerBandPerPixel ==
    /\ scene # 0 =>
          \A i \in 1..3, p \in Pixels :
              EvalLayer(scene, i, p).nan <=> (SourceDN(<<i, p>>) = 0)
    /\ \A i \in 1..3, p \in Pixels :
          LET b == BandOrder[i]
          IN  b_dn[b] # 0 => (EvalPixel(b_dn[b], p).nan <=> (disk[b][p] = 0))
    /\ \A o \in outputs : \A t \in DOMAIN o.data :
          o.data[t].nan <=> (SourceDN(t) = 0)

\* A raster with a pixel that is missing in one layer and a number in
\* another.
C17_Witness ==
    /\ pc = "done"
    /\ \E o \in outputs : \E p \in Pixels : \E i, j \in 1..3 :
          /\ SourceDN(<<i, p>>) = 0 /\ SourceDN(<<j, p>>) # 0
          /\ o.data[<<i, p>>].nan
          /\ ~o.data[<<j, p>>].nan

=============================================================================
